---------------------------- MODULE Spec2Model ----------------------------
(***************************************************************************)
(* Model of the Azure MCP agent: the tool provider client                  *)
(* (src/src/mcp/azure-mcp-client.ts, class AzureMCPClient) and the         *)
(* tool-calling orchestration loop (src/src/app.ts, class AzureMCPAgent).  *)
(*                                                                         *)
(* Every await of the code is a point where another handler may run, so    *)
(* each action below is the code between two awaits.  The completion API   *)
(* and the tool provider are the environment: their answers are chosen     *)
(* with \E from small sets.                                                *)
(*                                                                         *)
(* Strings that the code concatenates are sequences of tokens; a falsy     *)
(* string field (undefined or "") of a stream chunk is the empty string or *)
(* the empty sequence, which the code's truthiness tests treat alike.      *)
(* Object references (client, transport) are the number of the launch that *)
(* created them, 0 for null.                                               *)
(***************************************************************************)
EXTENDS Integers, Sequences, FiniteSets, TLC

(* ------------------------------ bounds --------------------------------- *)
\* slots for turns (runStream invocations) that may be in progress together
NumTurns == 2
\* runStream invocations over a run
MaxTurns == 2
\* stream chunks delivered over a run
MaxChunks == 3
\* tool calls the model requests in one round
MaxCalls == 2
\* agent.disconnect() calls over a run
MaxDisconnects == 1

Turns == 1..NumTurns

(* --------------------------- value encodings --------------------------- *)
\* distinct text tokens: the n-th chunk delivered carries the n-th token, so
\* that the order of text is observable
TextTok(n) ==
  <<"x1", "x2", "x3", "x4", "x5", "x6", "x7", "x8", "x9", "x10", "x11", "x12">>[n]

\* finish_reason values of the completion API; "null" is the absent value of
\* a chunk that does not end the stream
FinishReasons == {"stop", "tool_calls"}

\* the tool-round marker chunk
ToolMarker == <<"MARKER">>

\* content of a message whose content is null
NullContent == <<"null">>

\* tool catalogs the provider may serve on listTools
ToolT1 == [name |-> "t1", description |-> "d", inputSchema |-> "s"]

Catalogs == {<<>>, <<ToolT1>>}

\* values a provider call may resolve with, and reasons it may reject with
ResultVals == {<<"r1">>}

Thrown == {[isError |-> TRUE, message |-> "boom"],
           [isError |-> FALSE, message |-> "thrown value"]}

NotConnectedError == [isError |-> TRUE, message |-> "MCP client not connected"]

SyntaxError == [isError |-> TRUE, message |-> "Unexpected end of JSON input"]

\* who consumes a turn's chunks: a direct caller of agent.runStream, the
\* POST /chat handler, or agent.run under the POST /chat/sync handler
Routes == {"chat", "sync"}

\* the message field of a request body, as far as the handlers look at it:
\* absent, the empty string, a number, a text
Messages == {[type |-> "undefined", truthy |-> FALSE],
             [type |-> "string", truthy |-> FALSE],
             [type |-> "number", truthy |-> TRUE],
             [type |-> "string", truthy |-> TRUE]}

UserText == [type |-> "string", truthy |-> TRUE]

\* an HTTP response: status 0 while no header was sent
NoRes == [status |-> 0, body |-> <<>>]

BadRequestBody == <<"error", "Message is required">>

ServerErrorBody == <<"error", "An error occurred while processing your request">>

ErrorTrailer == <<"[Error: Something went wrong]">>

(* ------------------------------- state --------------------------------- *)
VARIABLES
  \* AzureMCPClient fields
  client, transport, tools, isConnected,
  \* AzureMCPAgent field
  initialized,
  \* the tool provider: transports launched so far, transports closed, the
  \* catalog it serves
  launches, closed, catalog,
  \* agent.disconnect() in progress: "idle" or "closing"
  dpc,
  \* per turn: position in runStream, and its locals
  pc, messages, offered, currentContent, toolCalls, finishReason, idx,
  \* per turn: chunks yielded to the caller
  out,
  \* per turn: the client object a pending connect()/listTools() was called on
  conn,
  \* per turn: the provider call in flight
  call,
  \* per turn: completion requests issued in the turn, chunks the current
  \* stream has delivered, whether the stream delivered its last chunk
  round, stream, ended,
  \* per turn: the tool calls of the last round (kept after toolCalls = []),
  \* and what the provider answered to those of them it was sent
  lastCalls, returned,
  \* per turn: the conversationHistory parameter of runStream
  conversationHistory,
  \* per request: the handler that received it ("api" for a direct call of
  \* agent.runStream), the message of its body, its response, and the
  \* result variable of agent.run
  route, message, res, result,
  \* per turn: the text deltas the model produced in the turn, and the
  \* requests of the current round that were sent to the provider
  produced, invoked,
  \* per turn: a completion request or stream of the turn failed
  completionError,
  \* counters that bound the run
  nturns, nchunks, ndisc

clientVars == <<client, transport, tools, isConnected, initialized,
                launches, closed, catalog, dpc, ndisc>>

turnVars == <<pc, messages, offered, currentContent, toolCalls, finishReason,
              idx, out, conn, call, round, stream, ended, lastCalls,
              returned, conversationHistory, route, message, res, result,
              produced, invoked, completionError>>

vars == <<clientVars, turnVars, nturns, nchunks>>

(* ------------------ AzureMCPClient: pure parts ------------------------- *)
\* connect(), lines 70-74: the provider's tool list mapped to MCPTool
MCPTools(cat) ==
  [k \in 1..Len(cat) |->
     [name |-> cat[k].name, description |-> cat[k].description,
      inputSchema |-> cat[k].inputSchema]]

\* getTools()
getTools == tools

\* getOpenAITools()
getOpenAITools ==
  [k \in 1..Len(tools) |->
     [type |-> "function",
      function |-> [name |-> tools[k].name,
                    description |-> tools[k].description,
                    parameters |-> tools[k].inputSchema]]]

\* callTool(), line 83: the guard that throws "MCP client not connected"
CallToolRefused == client = 0 \/ ~isConnected

\* a slip in line 28: the early return is missing
ConnectNeverReturnsEarly == FALSE

\* connect(), line 28: the early return
ConnectReturnsEarly == isConnected

\* initialize(), line 205: the early return
InitializeReturnsEarly == initialized

(* ------------------ runStream: pure parts ------------------------------ *)
Msg(r, c, id, tcs) ==
  [role |-> r, content |-> c, tool_call_id |-> id, tool_calls |-> tcs]

\* a slip in lines 217-221: the user message is put before the history
InitialMessagesUserFirst(history) ==
  <<Msg("system", <<"sys">>, "", <<>>)>> \o
  <<Msg("user", <<"u">>, "", <<>>)>> \o history

\* lines 217-221 (app.ts calls runStream without a history)
InitialMessages(history) ==
  <<Msg("system", <<"sys">>, "", <<>>)>> \o history \o
  <<Msg("user", <<"u">>, "", <<>>)>>

\* JSON.stringify and JSON.parse as far as the loop uses them
JSONStringify(v) == <<"json">> \o v

ErrorObject(m) == <<"error", m>>

JSONParse(s) ==
  IF s = <<"{", "}">> THEN [ok |-> TRUE, error |-> SyntaxError]
  ELSE [ok |-> FALSE, error |-> SyntaxError]

\* a slip in line 322: the thrown error's message is not used
ErrorTextUnknown(e) == "Unknown error"

\* line 322: error instanceof Error ? error.message : "Unknown error"
ErrorText(e) == IF e.isError THEN e.message ELSE "Unknown error"

\* lines 256-261: the entry created for an index seen for the first time
NewToolCall(frag) ==
  [id |-> frag.id, function |-> [name |-> "", arguments |-> <<>>]]

\* a slip in lines 270-271: the chunk is put in front of the arguments
MergeFragmentPrepend(tc, frag) ==
  [id |-> IF frag.id # "" THEN frag.id ELSE tc.id,
   function |->
     [name |-> IF frag.name # "" THEN frag.name ELSE tc.function.name,
      arguments |-> frag.arguments \o tc.function.arguments]]

\* lines 263-272: one fragment merged into the entry of its index
MergeFragment(tc, frag) ==
  [id |-> IF frag.id # "" THEN frag.id ELSE tc.id,
   function |->
     [name |-> IF frag.name # "" THEN frag.name ELSE tc.function.name,
      arguments |-> tc.function.arguments \o frag.arguments]]

\* lines 254-272: toolCalls after one fragment (fragment indexes are 0-based,
\* sequences 1-based)
AccumulateFragment(tcs, frag) ==
  LET k == frag.index + 1
      cur == IF k <= Len(tcs) THEN tcs[k] ELSE NewToolCall(frag)
  IN  IF k <= Len(tcs) THEN [tcs EXCEPT ![k] = MergeFragment(cur, frag)]
      ELSE Append(tcs, MergeFragment(cur, frag))

\* lines 252-274: toolCalls after all fragments of one chunk
RECURSIVE AccumulateAll(_, _)
AccumulateAll(tcs, frags) ==
  IF frags = <<>> THEN tcs
  ELSE AccumulateAll(AccumulateFragment(tcs, Head(frags)), Tail(frags))

\* a slip in line 278: the finish reason is not looked at
ShouldStopNoCalls(fr, tcs) == Len(tcs) = 0

\* a slip in line 278: && for ||
ShouldStopAnd(fr, tcs) == fr # "tool_calls" /\ Len(tcs) = 0

\* line 278: the test that ends the turn
ShouldStop(fr, tcs) == fr # "tool_calls" \/ Len(tcs) = 0

\* lines 286-294
AssistantMessage(content, tcs) ==
  Msg("assistant", IF content # <<>> THEN content ELSE NullContent, "",
      [k \in 1..Len(tcs) |->
         [id |-> tcs[k].id, type |-> "function", function |-> tcs[k].function]])

\* lines 310-315
ToolResultMessage(tc, value) ==
  Msg("tool", JSONStringify(value), tc.id, <<>>)

\* lines 318-325
ToolErrorMessage(tc, e) ==
  Msg("tool", JSONStringify(ErrorObject(ErrorText(e))), tc.id, <<>>)

\* a slip in lines 316-326: a call that fails before it reaches the provider
\* is skipped without a tool-result message
RECURSIVE RunCallsDropFailed(_, _, _)
RunCallsDropFailed(msgs, tcs, k) ==
  IF k > Len(tcs) THEN [messages |-> msgs, idx |-> k, awaiting |-> FALSE]
  ELSE IF ~JSONParse(tcs[k].function.arguments).ok \/ CallToolRefused
    THEN RunCallsDropFailed(msgs, tcs, k + 1)
  ELSE [messages |-> msgs, idx |-> k, awaiting |-> TRUE]

\* a slip in line 299: the arguments are not parsed before the call
RECURSIVE RunCallsNoParse(_, _, _)
RunCallsNoParse(msgs, tcs, k) ==
  IF k > Len(tcs) THEN [messages |-> msgs, idx |-> k, awaiting |-> FALSE]
  ELSE IF CallToolRefused
    THEN RunCallsNoParse(Append(msgs, ToolErrorMessage(tcs[k], NotConnectedError)),
                         tcs, k + 1)
  ELSE [messages |-> msgs, idx |-> k, awaiting |-> TRUE]

\* lines 297-327: the for loop from call k on, up to its next await: calls
\* whose arguments do not parse, or that callTool refuses, get their error
\* message at once; the loop stops at the first call sent to the provider
RECURSIVE RunCalls(_, _, _)
RunCalls(msgs, tcs, k) ==
  IF k > Len(tcs) THEN [messages |-> msgs, idx |-> k, awaiting |-> FALSE]
  ELSE LET parsed == JSONParse(tcs[k].function.arguments)
       IN  IF ~parsed.ok
             THEN RunCalls(Append(msgs, ToolErrorMessage(tcs[k], parsed.error)),
                           tcs, k + 1)
           ELSE IF CallToolRefused
             THEN RunCalls(Append(msgs, ToolErrorMessage(tcs[k], NotConnectedError)),
                           tcs, k + 1)
           ELSE [messages |-> msgs, idx |-> k, awaiting |-> TRUE]


(* ------------------------------- Init ---------------------------------- *)
NoCall == [name |-> "", client |-> 0]

\* the state after `new AzureMCPAgent(config)`: lines 11-14 of the client,
\* line 182 of the agent; no turn has started
Init ==
  /\ client = 0 /\ transport = 0 /\ tools = <<>> /\ isConnected = FALSE
  /\ initialized = FALSE
  /\ launches = 0 /\ closed = {} /\ catalog \in Catalogs
  /\ dpc = "idle" /\ ndisc = 0
  /\ pc = [t \in Turns |-> "idle"]
  /\ messages = [t \in Turns |-> <<>>]
  /\ offered = [t \in Turns |-> <<>>]
  /\ currentContent = [t \in Turns |-> <<>>]
  /\ toolCalls = [t \in Turns |-> <<>>]
  /\ finishReason = [t \in Turns |-> "null"]
  /\ idx = [t \in Turns |-> 0]
  /\ out = [t \in Turns |-> <<>>]
  /\ conn = [t \in Turns |-> 0]
  /\ call = [t \in Turns |-> NoCall]
  /\ round = [t \in Turns |-> 0]
  /\ stream = [t \in Turns |-> <<>>]
  /\ ended = [t \in Turns |-> FALSE]
  /\ lastCalls = [t \in Turns |-> <<>>]
  /\ returned = [t \in Turns |-> <<>>]
  /\ conversationHistory = [t \in Turns |-> <<>>]
  /\ route = [t \in Turns |-> "api"]
  /\ message = [t \in Turns |-> UserText]
  /\ res = [t \in Turns |-> NoRes]
  /\ result = [t \in Turns |-> <<>>]
  /\ produced = [t \in Turns |-> <<>>]
  /\ invoked = [t \in Turns |-> <<>>]
  /\ completionError = [t \in Turns |-> FALSE]
  /\ nturns = 0 /\ nchunks = 0

(* ------------------- the callers of runStream -------------------------- *)
\* lines 67 and 104: the test that answers 400
MessageRejectedFalsy(m) == ~m.truthy

MessageRejected(m) == ~m.truthy \/ m.type # "string"

\* a slip in line 337: the tool-round marker is left out of the result
RunAppendText(r, chunk) == IF chunk = ToolMarker THEN r ELSE r \o chunk

\* agent.run, line 337: result += chunk
RunAppend(r, chunk) == r \o chunk

\* POST /chat/sync, lines 109-117, after agent.run settled or not yet (p is
\* the turn's position, r the result of run)
SyncRespond(p, r, old) ==
  IF p = "done" THEN [status |-> 200, body |-> <<"response">> \o r]
  ELSE IF p = "failed" THEN [status |-> 500, body |-> ServerErrorBody]
  ELSE old

\* POST /chat, lines 79-96: the chunks yielded in a step are written (the
\* first write sends the headers), res.end() follows the last one, and an
\* error ends the response with status 500 or with the error trailer
ChatRespond(p, new, old) ==
  LET w == IF new = <<>> THEN old
           ELSE [status |-> 200, body |-> old.body \o new[1]]
  IN  IF p = "done" THEN [w EXCEPT !.status = 200]
      ELSE IF p = "failed"
        THEN (IF w.status = 0 THEN [status |-> 500, body |-> ServerErrorBody]
              ELSE [w EXCEPT !.body = @ \o ErrorTrailer])
      ELSE w

\* what the consumer of turn t's generator does in a step of the turn: the
\* body of its for-await loop for a chunk yielded in the step, and what
\* follows the loop when the generator returned or threw
Caller(t) ==
  LET new == SubSeq(out'[t], Len(out[t]) + 1, Len(out'[t]))
      acc == IF new = <<>> THEN result[t] ELSE RunAppend(result[t], new[1])
  IN  /\ result' = [result EXCEPT ![t] = IF route[t] = "sync" THEN acc ELSE @]
      /\ res' = [res EXCEPT ![t] =
                   IF route[t] = "sync" THEN SyncRespond(pc'[t], acc, @)
                   ELSE IF route[t] = "chat" THEN ChatRespond(pc'[t], new, @)
                   ELSE @]

(* ----------------------- runStream: the actions ------------------------ *)
\* a slip in lines 246-249: the accumulated content is yielded, not the delta
YieldAccumulated(o, content, delta) ==
  IF delta # <<>> THEN Append(o, content) ELSE o

\* lines 246-249: a chunk with content yields its delta
YieldDelta(o, content, delta) ==
  IF delta # <<>> THEN Append(o, delta) ELSE o

\* the completion API's side of lines 246-249: the deltas it produced
Produce(p, c) == IF c.content # <<>> THEN Append(p, c.content) ELSE p

\* a slip in lines 227-241: a failed completion request is issued again
RetryOnCompletionError == "create"

\* lines 227-241 have no try/catch: the error leaves runStream
OnCompletionError == "failed"

\* a slip in line 297: a call is made again after it returned
NextCallAgain(k) == IF k = 1 THEN k ELSE k + 1

\* line 297: the for loop moves on to the next request
NextCall(k) == k + 1

\* the locals of a turn that has not reached its loop
FreshLocals(t) ==
  /\ currentContent' = [currentContent EXCEPT ![t] = <<>>]
  /\ toolCalls' = [toolCalls EXCEPT ![t] = <<>>]
  /\ finishReason' = [finishReason EXCEPT ![t] = "null"]
  /\ idx' = [idx EXCEPT ![t] = 0]
  /\ out' = [out EXCEPT ![t] = <<>>]
  /\ call' = [call EXCEPT ![t] = NoCall]
  /\ stream' = [stream EXCEPT ![t] = <<>>]
  /\ ended' = [ended EXCEPT ![t] = FALSE]
  /\ lastCalls' = [lastCalls EXCEPT ![t] = <<>>]
  /\ returned' = [returned EXCEPT ![t] = <<>>]
  /\ produced' = [produced EXCEPT ![t] = <<>>]
  /\ invoked' = [invoked EXCEPT ![t] = <<>>]
  /\ completionError' = [completionError EXCEPT ![t] = FALSE]

\* lines 217-232: the conversation is seeded, the catalog read, and the first
\* completion request issued (cached is the client's tool list at that time)
EnterLoop(t, history, cached) ==
  /\ messages' = [messages EXCEPT ![t] = InitialMessages(history)]
  /\ offered' = [offered EXCEPT ![t] = cached]
  /\ round' = [round EXCEPT ![t] = 1]
  /\ pc' = [pc EXCEPT ![t] = "create"]

\* runStream is called (lines 211-215), initialize() runs (204-209) and
\* connect() runs up to its first await (27-65)
RunStream(t, history) ==
  /\ pc[t] \in {"idle", "done", "failed"}
  /\ nturns < MaxTurns
  /\ nturns' = nturns + 1
  /\ FreshLocals(t)
  /\ conversationHistory' = [conversationHistory EXCEPT ![t] = history]
  /\ IF InitializeReturnsEarly \/ ConnectReturnsEarly
       THEN /\ initialized' = TRUE
            /\ EnterLoop(t, history, getOpenAITools)
            /\ conn' = [conn EXCEPT ![t] = 0]
            /\ UNCHANGED <<client, transport, launches>>
       ELSE /\ transport' = launches + 1
            /\ client' = launches + 1
            /\ launches' = launches + 1
            /\ conn' = [conn EXCEPT ![t] = launches + 1]
            /\ pc' = [pc EXCEPT ![t] = "handshake"]
            /\ messages' = [messages EXCEPT ![t] = <<>>]
            /\ offered' = [offered EXCEPT ![t] = <<>>]
            /\ round' = [round EXCEPT ![t] = 0]
            /\ UNCHANGED initialized
  /\ UNCHANGED <<tools, isConnected, closed, catalog, dpc, ndisc, nchunks>>

\* connect(), lines 65-69: the handshake completed; the client is marked
\* connected and listTools() is called on whatever this.client is now
HandshakeOk(t) ==
  /\ pc[t] = "handshake"
  /\ conn[t] \notin closed
  /\ isConnected' = TRUE
  /\ IF client = 0
       THEN /\ pc' = [pc EXCEPT ![t] = "failed"]
            /\ conn' = [conn EXCEPT ![t] = 0]
       ELSE /\ pc' = [pc EXCEPT ![t] = "listTools"]
            /\ conn' = [conn EXCEPT ![t] = client]
  /\ UNCHANGED <<client, transport, tools, initialized, launches, closed,
                 catalog, dpc, ndisc, nturns, nchunks>>
  /\ UNCHANGED <<messages, offered, currentContent, toolCalls, finishReason,
                 idx, out, call, round, stream, ended, lastCalls,
                 returned>>
  /\ UNCHANGED <<conversationHistory, route, message, produced, invoked,
                 completionError>>
  /\ Caller(t)

\* connect(), line 65 rejects: the error leaves connect, initialize and
\* runStream
HandshakeFail(t) ==
  /\ pc[t] = "handshake"
  /\ pc' = [pc EXCEPT ![t] = "failed"]
  /\ conn' = [conn EXCEPT ![t] = 0]
  /\ UNCHANGED <<clientVars, nturns, nchunks>>
  /\ UNCHANGED <<messages, offered, currentContent, toolCalls, finishReason,
                 idx, out, call, round, stream, ended, lastCalls,
                 returned>>
  /\ UNCHANGED <<conversationHistory, route, message, produced, invoked,
                 completionError>>
  /\ Caller(t)

\* connect(), lines 69-76, then initialize() line 207 and runStream lines
\* 217-232
ListToolsOk(t, history) ==
  /\ pc[t] = "listTools"
  /\ conn[t] \notin closed
  /\ tools' = MCPTools(catalog)
  /\ initialized' = TRUE
  /\ conn' = [conn EXCEPT ![t] = 0]
  /\ EnterLoop(t, history, getOpenAITools')
  /\ UNCHANGED <<client, transport, isConnected, launches, closed, catalog,
                 dpc, ndisc, nturns, nchunks>>
  /\ UNCHANGED <<currentContent, toolCalls, finishReason, idx, out, call,
                 stream, ended, lastCalls,
                 returned>>
  /\ UNCHANGED <<conversationHistory, route, message, produced, invoked,
                 completionError>>
  /\ Caller(t)

\* connect(), line 69 rejects
ListToolsFail(t) ==
  /\ pc[t] = "listTools"
  /\ pc' = [pc EXCEPT ![t] = "failed"]
  /\ conn' = [conn EXCEPT ![t] = 0]
  /\ UNCHANGED <<clientVars, nturns, nchunks>>
  /\ UNCHANGED <<messages, offered, currentContent, toolCalls, finishReason,
                 idx, out, call, round, stream, ended, lastCalls,
                 returned>>
  /\ UNCHANGED <<conversationHistory, route, message, produced, invoked,
                 completionError>>
  /\ Caller(t)

\* lines 227-239: the completion request resolves with a stream
CreateOk(t) ==
  /\ pc[t] = "create"
  /\ pc' = [pc EXCEPT ![t] = "stream"]
  /\ currentContent' = [currentContent EXCEPT ![t] = <<>>]
  /\ toolCalls' = [toolCalls EXCEPT ![t] = <<>>]
  /\ finishReason' = [finishReason EXCEPT ![t] = "null"]
  /\ stream' = [stream EXCEPT ![t] = <<>>]
  /\ ended' = [ended EXCEPT ![t] = FALSE]
  /\ UNCHANGED <<clientVars, nturns, nchunks>>
  /\ UNCHANGED <<messages, offered, idx, out, conn, call, round, lastCalls,
                 returned>>
  /\ UNCHANGED <<conversationHistory, route, message, produced, invoked,
                 completionError>>
  /\ Caller(t)

\* line 227 rejects, or the stream fails at line 241
CompletionFail(t) ==
  /\ pc[t] \in {"create", "stream"}
  /\ pc' = [pc EXCEPT ![t] = OnCompletionError]
  /\ UNCHANGED <<clientVars, nturns, nchunks>>
  /\ UNCHANGED <<messages, offered, currentContent, toolCalls, finishReason,
                 idx, out, conn, call, round, stream, ended, lastCalls,
                 returned>>
  /\ completionError' = [completionError EXCEPT ![t] = TRUE]
  /\ UNCHANGED <<conversationHistory, route, message, produced, invoked>>
  /\ Caller(t)

\* lines 241-275: one chunk of the stream
Chunk(t, c) ==
  /\ pc[t] = "stream"
  /\ ~ended[t]
  /\ nchunks < MaxChunks
  /\ nchunks' = nchunks + 1
  /\ finishReason' = [finishReason EXCEPT ![t] = c.finish_reason]
  /\ currentContent' = [currentContent EXCEPT ![t] = @ \o c.content]
  /\ out' = [out EXCEPT ![t] = YieldDelta(@, currentContent'[t], c.content)]
  /\ toolCalls' = [toolCalls EXCEPT ![t] = AccumulateAll(@, c.tool_calls)]
  /\ stream' = [stream EXCEPT ![t] = Append(@, c)]
  /\ ended' = [ended EXCEPT ![t] = c.finish_reason # "null"]
  /\ UNCHANGED <<clientVars, nturns>>
  /\ UNCHANGED <<pc, messages, offered, idx, conn, call, round, lastCalls,
                 returned>>
  /\ produced' = [produced EXCEPT ![t] = Produce(@, c)]
  /\ UNCHANGED <<conversationHistory, route, message, invoked, completionError>>
  /\ Caller(t)

\* the loop of lines 297-327 has run from some call on (r is RunCalls'
\* answer): it awaits a provider call, or the round is over and lines 330 and
\* 227 run
Proceed(t, r) ==
  /\ messages' = [messages EXCEPT ![t] = r.messages]
  /\ idx' = [idx EXCEPT ![t] = r.idx]
  /\ IF r.awaiting
       THEN /\ pc' = [pc EXCEPT ![t] = "calling"]
            /\ call' = [call EXCEPT ![t] =
                          [name |-> toolCalls[t][r.idx].function.name,
                           client |-> client]]
            /\ UNCHANGED <<toolCalls, round>>
       ELSE /\ pc' = [pc EXCEPT ![t] = "create"]
            /\ call' = [call EXCEPT ![t] = NoCall]
            /\ toolCalls' = [toolCalls EXCEPT ![t] = <<>>]
            /\ round' = [round EXCEPT ![t] = @ + 1]

\* lines 277-308: the stream is exhausted; the turn ends, or the tool round
\* starts and runs up to its first provider call
StreamEnd(t) ==
  /\ pc[t] = "stream"
  /\ ended[t]
  /\ IF ShouldStop(finishReason[t], toolCalls[t])
       THEN /\ pc' = [pc EXCEPT ![t] = "done"]
            /\ UNCHANGED <<messages, idx, out, call, toolCalls, round, lastCalls,
                         returned>>
       ELSE /\ out' = [out EXCEPT ![t] = Append(@, ToolMarker)]
            /\ lastCalls' = [lastCalls EXCEPT ![t] = toolCalls[t]]
            /\ returned' = [returned EXCEPT ![t] = <<>>]
            /\ Proceed(t, RunCalls(Append(messages[t],
                                          AssistantMessage(currentContent[t], toolCalls[t])),
                                   toolCalls[t], 1))
  /\ UNCHANGED <<clientVars, nturns, nchunks>>
  /\ UNCHANGED <<offered, currentContent, finishReason, conn, stream, ended>>
  /\ invoked' = [invoked EXCEPT ![t] =
                   IF pc'[t] = "calling" THEN <<idx'[t]>>
                   ELSE IF pc'[t] = "done" THEN @ ELSE <<>>]
  /\ UNCHANGED <<conversationHistory, route, message, produced, completionError>>
  /\ Caller(t)

\* lines 305-327: the provider call in flight resolves with a result
\* (outcome.ok) or rejects, and the loop runs on to its next await
ToolReturn(t, outcome) ==
  /\ pc[t] = "calling"
  /\ outcome.ok => call[t].client \notin closed
  /\ LET tc == toolCalls[t][idx[t]]
         m == IF outcome.ok THEN ToolResultMessage(tc, outcome.result)
              ELSE ToolErrorMessage(tc, outcome.error)
     IN  Proceed(t, RunCalls(Append(messages[t], m), toolCalls[t], NextCall(idx[t])))
  /\ UNCHANGED <<clientVars, nturns, nchunks>>
  /\ returned' = [returned EXCEPT ![t] = Append(@, [k |-> idx[t], outcome |-> outcome])]
  /\ UNCHANGED <<offered, currentContent, finishReason, out, conn, stream,
                 ended, lastCalls>>
  /\ invoked' = [invoked EXCEPT ![t] =
                   IF pc'[t] = "calling" THEN Append(@, idx'[t]) ELSE @]
  /\ UNCHANGED <<conversationHistory, route, message, produced, completionError>>
  /\ Caller(t)

Outcomes ==
  {[ok |-> TRUE, result |-> v, error |-> NotConnectedError] : v \in ResultVals}
  \cup {[ok |-> FALSE, result |-> <<>>, error |-> e] : e \in Thrown}

(* ------------------------- requests: the actions ----------------------- *)
\* agent.runStream(userMessage, history) called directly, chunks consumed by
\* the caller
DirectCall(t, history) ==
  /\ RunStream(t, history)
  /\ route' = [route EXCEPT ![t] = "api"]
  /\ message' = [message EXCEPT ![t] = UserText]
  /\ res' = [res EXCEPT ![t] = NoRes]
  /\ result' = [result EXCEPT ![t] = <<>>]

\* POST /chat (lines 63-81) and POST /chat/sync (lines 100-109, 334-336) up
\* to the first await: the 400 answer, or the turn is started
Request(t, rt, m) ==
  /\ route' = [route EXCEPT ![t] = rt]
  /\ message' = [message EXCEPT ![t] = m]
  /\ result' = [result EXCEPT ![t] = <<>>]
  /\ IF MessageRejected(m)
       THEN /\ pc[t] \in {"idle", "done", "failed"}
            /\ res' = [res EXCEPT ![t] = [status |-> 400, body |-> BadRequestBody]]
            /\ pc' = [pc EXCEPT ![t] = "idle"]
            /\ FreshLocals(t)
            /\ messages' = [messages EXCEPT ![t] = <<>>]
            /\ offered' = [offered EXCEPT ![t] = <<>>]
            /\ round' = [round EXCEPT ![t] = 0]
            /\ conn' = [conn EXCEPT ![t] = 0]
            /\ conversationHistory' = [conversationHistory EXCEPT ![t] = <<>>]
            /\ UNCHANGED <<clientVars, nturns, nchunks>>
       ELSE /\ RunStream(t, <<>>)
            /\ res' = [res EXCEPT ![t] = NoRes]

(* ------------------- agent.disconnect(): the actions ------------------- *)
\* AzureMCPClient.disconnect() lines 117-119, then AzureMCPAgent.disconnect()
\* line 344
DisconnectReset ==
  /\ client' = 0
  /\ transport' = 0
  /\ isConnected' = FALSE
  /\ initialized' = FALSE
  /\ dpc' = "idle"

\* lines 342-343 and 113-116: disconnect() is called; with a transport it
\* awaits transport.close(), without one it runs through
DisconnectStart ==
  /\ dpc = "idle"
  /\ ndisc < MaxDisconnects
  /\ ndisc' = ndisc + 1
  /\ IF transport # 0
       THEN /\ closed' = closed \cup {transport}
            /\ dpc' = "closing"
            /\ UNCHANGED <<client, transport, isConnected, initialized>>
       ELSE /\ DisconnectReset
            /\ UNCHANGED closed
  /\ UNCHANGED <<tools, launches, catalog, turnVars, nturns, nchunks>>

\* transport.close() resolved
DisconnectFinish ==
  /\ dpc = "closing"
  /\ DisconnectReset
  /\ UNCHANGED <<tools, launches, closed, catalog, ndisc, turnVars, nturns, nchunks>>

(* --------------------- the completion API's chunks --------------------- *)
Chunk_(content, frags, fr) ==
  [content |-> content, tool_calls |-> frags, finish_reason |-> fr]

Frag(i, id, name, args) ==
  [index |-> i, id |-> id, name |-> name, arguments |-> args]

CallId(i) == <<"c0", "c1", "c2", "c3">>[i + 1]

\* what the model may ask for in a tool call: a tool of the catalog, a name
\* no catalog has, arguments that are no JSON
Asks == {[name |-> "t1", arguments |-> <<"{", "}">>],
         [name |-> "zz", arguments |-> <<"{", "}">>],
         [name |-> "t1", arguments |-> <<"{">>]}

\* the chunks Spec draws from: a text delta, a whole tool call at the next
\* free index, or the chunk that carries the finish reason
MainChunks(t) ==
  {Chunk_(<<TextTok(nchunks + 1)>>, <<>>, "null")}
  \cup {Chunk_(<<>>, <<Frag(Len(toolCalls[t]), CallId(Len(toolCalls[t])),
                         a.name, a.arguments)>>, "null") :
          a \in IF Len(toolCalls[t]) < MaxCalls THEN Asks ELSE {}}
  \cup {Chunk_(<<>>, <<>>, fr) : fr \in FinishReasons}

(* --------------------------- specifications ---------------------------- *)
\* turns one after the other on one agent, disconnect() at any time
Sequential(t) == t = 1

Next ==
  \/ \E t \in Turns : Sequential(t) /\ DirectCall(t, <<>>)
  \/ \E t \in Turns : HandshakeOk(t)
  \/ \E t \in Turns : HandshakeFail(t)
  \/ \E t \in Turns : ListToolsOk(t, conversationHistory[t])
  \/ \E t \in Turns : ListToolsFail(t)
  \/ \E t \in Turns : CreateOk(t)
  \/ \E t \in Turns : CompletionFail(t)
  \/ \E t \in Turns : \E c \in MainChunks(t) : Chunk(t, c)
  \/ \E t \in Turns : StreamEnd(t)
  \/ \E t \in Turns : \E o \in Outcomes : ToolReturn(t, o)
  \/ DisconnectStart
  \/ DisconnectFinish

Spec == Init /\ [][Next]_vars

(* ------------------------------ claims --------------------------------- *)
\* position of the last assistant message of a conversation, 0 if none
LastAssistant(msgs) ==
  LET S == {k \in 1..Len(msgs) : msgs[k].role = "assistant"}
  IN  IF S = {} THEN 0 ELSE CHOOSE k \in S : \A j \in S : j <= k

\* the conversation of turn t ends with the assistant message that records
\* the requests of the last round followed by exactly n tool-result messages,
\* which answer the first n requests in their order
RoundBlock(t, n) ==
  LET la == LastAssistant(messages[t])
  IN  /\ la > 0
      /\ Len(messages[t]) = la + n
      /\ Len(messages[t][la].tool_calls) = Len(lastCalls[t])
      /\ \A k \in 1..Len(lastCalls[t]) :
            messages[t][la].tool_calls[k].id = lastCalls[t][k].id
      /\ \A k \in 1..n :
            /\ messages[t][la + k].role = "tool"
            /\ messages[t][la + k].tool_call_id = lastCalls[t][k].id

\* C1: while call idx of a round is with the provider the conversation holds
\* one tool-result message for each of the requests before it, in the order
\* of the requests, and when the next completion request is issued it holds
\* exactly one for every request of the round, whatever the calls' outcomes.
C1_OneResultPerRequest ==
  \A t \in Turns :
    /\ pc[t] = "calling" => RoundBlock(t, idx[t] - 1)
    /\ (pc[t] = "create" /\ round[t] > 1) => RoundBlock(t, Len(lastCalls[t]))

\* a round of two requests, the first rejected by the provider and the second
\* answered, has ended and the next completion request is issued
C1_Witness ==
  \E t \in Turns :
    /\ pc[t] = "create" /\ round[t] = 2
    /\ Len(lastCalls[t]) = 2 /\ Len(returned[t]) = 2
    /\ ~returned[t][1].outcome.ok /\ returned[t][2].outcome.ok

\* the finish reason the stream provided, and whether it carried tool calls
StreamFinish(st) == IF st = <<>> THEN "null" ELSE st[Len(st)].finish_reason

StreamHasCalls(st) == \E k \in 1..Len(st) : st[k].tool_calls # <<>>

\* C6: the turn ends only when a stream is exhausted, and then if and only if
\* the stream's finish reason is not "tool_calls" or the stream carried no
\* tool call; otherwise a tool round starts, the round never ends the turn,
\* and after it another completion request is issued.
C6_StopOrToolRound ==
  [][\A t \in Turns :
       /\ (pc[t] = "stream" /\ pc'[t] \notin {"stream", "failed"}) =>
            /\ ended[t]
            /\ (pc'[t] = "done") <=>
                 (StreamFinish(stream[t]) # "tool_calls" \/ ~StreamHasCalls(stream[t]))
            /\ pc'[t] # "done" =>
                 /\ pc'[t] \in {"calling", "create"}
                 /\ out'[t] = Append(out[t], ToolMarker)
       /\ (pc'[t] = "done" /\ pc[t] # "done") => pc[t] = "stream"
       /\ pc[t] = "calling" => pc'[t] \in {"calling", "create"}
       /\ (pc'[t] = "create" /\ pc[t] \in {"stream", "calling"}) =>
            round'[t] = round[t] + 1]_vars

\* a stream that ended with "tool_calls" and one tool call was followed by a
\* tool round and a second completion request
C6_Witness ==
  \E t \in Turns :
    /\ pc[t] = "create" /\ round[t] = 2
    /\ StreamFinish(stream[t]) = "tool_calls"
    /\ Len(lastCalls[t]) = 1

\* C7: a provider call that rejects with an Error leaves the tool-result
\* message {error: <message>} for its request in the conversation; the step
\* that handles it goes on to the next call or to the next completion
\* request, and never fails or ends the turn.
C7_ThrowBecomesResult ==
  /\ [](\A t \in Turns : \A j \in 1..Len(returned[t]) :
          LET o == returned[t][j].outcome
              k == returned[t][j].k
              la == LastAssistant(messages[t])
          IN  (~o.ok /\ o.error.isError) =>
                /\ la > 0 /\ Len(messages[t]) >= la + k
                /\ messages[t][la + k] =
                     [role |-> "tool", tool_call_id |-> lastCalls[t][k].id,
                      content |-> <<"json", "error", o.error.message>>,
                      tool_calls |-> <<>>])
  /\ [][\A t \in Turns :
          pc[t] = "calling" =>
            /\ pc'[t] \in {"calling", "create"}
            /\ messages'[t] # messages[t] =>
                 /\ idx'[t] > idx[t]
                 /\ (pc'[t] = "create") <=> (idx'[t] > Len(lastCalls[t]))]_vars

\* the first call of a round was rejected and the second is with the provider
C7_Witness ==
  \E t \in Turns :
    /\ pc[t] = "calling" /\ idx[t] = 2
    /\ Len(returned[t]) = 1
    /\ ~returned[t][1].outcome.ok /\ returned[t][1].outcome.error.isError

\* C2: a turn that offered no tools never emits the tool marker, never
\* appends an assistant or tool-result message, never has a provider call in
\* flight and issues one completion request only.
C2_NoToolsNoRound ==
  \A t \in Turns :
    (pc[t] \in {"create", "stream", "calling", "done"} /\ offered[t] = <<>>) =>
      /\ \A k \in 1..Len(out[t]) : out[t][k] # ToolMarker
      /\ \A k \in 1..Len(messages[t]) : messages[t][k].role \notin {"assistant", "tool"}
      /\ pc[t] # "calling"
      /\ round[t] = 1

\* C3: connect() is all-or-nothing; in particular, when no connect() is in
\* progress the client is marked connected only with the provider's catalog
\* stored.
C3_ConnectAllOrNothing ==
  ((\A t \in Turns : pc[t] \notin {"handshake", "listTools"}) /\ isConnected) =>
     tools = MCPTools(catalog)

\* C8: disconnect() resets the cached tool list, so getTools and
\* getOpenAITools are empty in every state in which the client is not
\* connected.
C8_DisconnectResets ==
  ~isConnected => getTools = <<>> /\ getOpenAITools = <<>>

\* C9 as stated: with no disconnect, turns one after the other launch the
\* provider at most once.
C9_LaunchedOnce == ndisc = 0 => launches <= 1

\* C9, amended: a turn that starts while the client is connected launches
\* nothing and leaves client, transport, catalog and connection flag as they
\* are; with no disconnect nothing is launched once the client is connected,
\* and until then every turn started has launched the provider once.
C9_ConnectIdempotent ==
  /\ []((ndisc = 0 /\ ~isConnected) => launches = nturns)
  /\ [][(nturns' # nturns /\ isConnected) =>
          UNCHANGED <<client, transport, tools, isConnected, launches>>]_vars
  /\ [][(ndisc' = 0 /\ isConnected) => launches' = launches]_vars

\* a second turn has started on the connection the first one made
C9_Witness ==
  /\ nturns = 2 /\ launches = 1 /\ ndisc = 0 /\ isConnected
  /\ pc[1] = "create" /\ round[1] = 1

\* C10: a call is with the provider only if the client is connected and the
\* name is a tool of the catalog the client holds.
C10_CallToolChecks ==
  \A t \in Turns :
    pc[t] = "calling" =>
      /\ call[t].client # 0
      /\ \E k \in 1..Len(getTools) : getTools[k].name = call[t].name

(* ---------------- fragment assembly on its own (SpecAsm) --------------- *)
\* the state in which a connected agent's first turn awaits the first chunk
\* of its first completion stream
InitAsm ==
  /\ catalog \in Catalogs
  /\ client = 1 /\ transport = 1 /\ isConnected = TRUE /\ initialized = TRUE
  /\ tools = MCPTools(catalog)
  /\ launches = 1 /\ closed = {} /\ dpc = "idle" /\ ndisc = 0
  /\ pc = [t \in Turns |-> IF t = 1 THEN "stream" ELSE "idle"]
  /\ messages = [t \in Turns |-> IF t = 1 THEN InitialMessages(<<>>) ELSE <<>>]
  /\ offered = [t \in Turns |-> IF t = 1 THEN getOpenAITools ELSE <<>>]
  /\ currentContent = [t \in Turns |-> <<>>]
  /\ toolCalls = [t \in Turns |-> <<>>]
  /\ finishReason = [t \in Turns |-> "null"]
  /\ idx = [t \in Turns |-> 0]
  /\ out = [t \in Turns |-> <<>>]
  /\ conn = [t \in Turns |-> 0]
  /\ call = [t \in Turns |-> NoCall]
  /\ round = [t \in Turns |-> IF t = 1 THEN 1 ELSE 0]
  /\ stream = [t \in Turns |-> <<>>]
  /\ ended = [t \in Turns |-> FALSE]
  /\ lastCalls = [t \in Turns |-> <<>>]
  /\ returned = [t \in Turns |-> <<>>]
  /\ conversationHistory = [t \in Turns |-> <<>>]
  /\ route = [t \in Turns |-> "api"]
  /\ message = [t \in Turns |-> UserText]
  /\ res = [t \in Turns |-> NoRes]
  /\ result = [t \in Turns |-> <<>>]
  /\ produced = [t \in Turns |-> <<>>]
  /\ invoked = [t \in Turns |-> <<>>]
  /\ completionError = [t \in Turns |-> FALSE]
  /\ nturns = 1 /\ nchunks = 0

\* identifiers and names a fragment may carry ("" when it carries none)
FragIds == {"", "a", "b"}

FragNames == {"", "n"}

\* the indexes a fragment may carry: one already seen, or the next one
FragIndexes(t) ==
  {i \in 0..Len(toolCalls[t]) : i < MaxCalls}

\* a fragment's argument chunk: none, or a token no other chunk carries
FragArgs == {<<>>, <<TextTok(nchunks + 1)>>}

\* the chunks SpecAsm draws from: one fragment with any of the fields, or two
\* argument continuations for two indexes already seen
AsmChunks(t) ==
  {Chunk_(<<>>, <<Frag(i, id, n, a)>>, "null") :
     i \in FragIndexes(t), id \in FragIds, n \in FragNames, a \in FragArgs}
  \cup {Chunk_(<<>>, <<Frag(i, "", "", <<TextTok(nchunks + 1)>>),
                       Frag(j, "", "", <<TextTok(nchunks + 1)>>)>>, "null") :
          i \in {i \in FragIndexes(t) : i < Len(toolCalls[t])},
          j \in {j \in FragIndexes(t) : j < Len(toolCalls[t])}}

NextAsm == \E c \in AsmChunks(1) : Chunk(1, c)

SpecAsm == InitAsm /\ [][NextAsm]_vars

\* the fragments a stream delivered, in arrival order
RECURSIVE FragmentsOf(_)
FragmentsOf(st) ==
  IF st = <<>> THEN <<>> ELSE Head(st).tool_calls \o FragmentsOf(Tail(st))

\* the argument chunks tagged with index i, concatenated in arrival order
RECURSIVE ArgsFor(_, _)
ArgsFor(frags, i) ==
  IF frags = <<>> THEN <<>>
  ELSE (IF Head(frags).index = i THEN Head(frags).arguments ELSE <<>>)
       \o ArgsFor(Tail(frags), i)

\* the identifiers, and the names, that fragments of index i supplied
IdsFor(frags, i) ==
  {frags[k].id : k \in {k \in 1..Len(frags) : frags[k].index = i /\ frags[k].id # ""}}

NamesFor(frags, i) ==
  {frags[k].name : k \in {k \in 1..Len(frags) : frags[k].index = i /\ frags[k].name # ""}}

\* the first identifier, and the first name, a fragment of index i supplied
FirstIdFor(frags, i) ==
  LET S == {k \in 1..Len(frags) : frags[k].index = i /\ frags[k].id # ""}
  IN  IF S = {} THEN "" ELSE frags[CHOOSE k \in S : \A j \in S : k <= j].id

FirstNameFor(frags, i) ==
  LET S == {k \in 1..Len(frags) : frags[k].index = i /\ frags[k].name # ""}
  IN  IF S = {} THEN "" ELSE frags[CHOOSE k \in S : \A j \in S : k <= j].name

\* C4: the identifier and the name of the request at each index are those of
\* the first fragment of that index that carries them.
C4_FirstFragmentWins ==
  \A t \in Turns : \A k \in 1..Len(toolCalls[t]) :
    /\ toolCalls[t][k].id = FirstIdFor(FragmentsOf(stream[t]), k - 1)
    /\ toolCalls[t][k].function.name = FirstNameFor(FragmentsOf(stream[t]), k - 1)

\* C5: under every interleaving of fragments the request at each index has as
\* arguments the argument chunks tagged with that index, concatenated in
\* arrival order, and as identifier and name an identifier and a name that
\* were supplied for that index (none if none was), whichever came first.
C5_AssemblyByIndex ==
  \A t \in Turns :
    LET frags == FragmentsOf(stream[t])
    IN  /\ Len(toolCalls[t]) = Cardinality({frags[k].index : k \in 1..Len(frags)})
        /\ \A k \in 1..Len(toolCalls[t]) :
             LET tc == toolCalls[t][k]
             IN  /\ tc.function.arguments = ArgsFor(frags, k - 1)
                 /\ IF IdsFor(frags, k - 1) = {} THEN tc.id = ""
                    ELSE tc.id \in IdsFor(frags, k - 1)
                 /\ IF NamesFor(frags, k - 1) = {} THEN tc.function.name = ""
                    ELSE tc.function.name \in NamesFor(frags, k - 1)

\* fragments for index 0, then index 1, then index 0 again, each with an
\* argument chunk; index 0 got its name before its identifier and index 1 its
\* identifier before its name
C5_Witness ==
  LET frags == FragmentsOf(stream[1])
  IN  /\ Len(frags) = 3
      /\ frags[1].index = 0 /\ frags[2].index = 1 /\ frags[3].index = 0
      /\ \A k \in 1..3 : frags[k].arguments # <<>>
      /\ frags[1].name = "n" /\ frags[1].id = "" /\ frags[3].id = "a"
      /\ frags[2].id = "b" /\ frags[2].name = ""
      /\ toolCalls[1][1].id = "a" /\ toolCalls[1][1].function.name = "n"
      /\ Len(toolCalls[1][1].function.arguments) = 2


(* ---------------- the callers of the agent: SpecCallers ---------------- *)
\* histories a direct caller may pass: none, or an earlier exchange with a
\* completed tool round
Histories ==
  {<<>>,
   <<Msg("user", <<"hu">>, "", <<>>),
     Msg("assistant", NullContent, "",
         <<[id |-> "c0", type |-> "function",
            function |-> [name |-> "t1", arguments |-> <<"{", "}">>]]>>),
     Msg("tool", JSONStringify(<<"r0">>), "c0", <<>>),
     Msg("assistant", <<"ha">>, "", <<>>)>>}

\* what the model may ask for, with the empty argument string added
AsksAll == Asks \cup {[name |-> "t1", arguments |-> <<>>]}

CallerChunks(t) ==
  {Chunk_(<<TextTok(nchunks + 1)>>, <<>>, "null")}
  \cup {Chunk_(<<>>, <<Frag(Len(toolCalls[t]), CallId(Len(toolCalls[t])),
                         a.name, a.arguments)>>, "null") :
          a \in IF Len(toolCalls[t]) < MaxCalls THEN AsksAll ELSE {}}
  \cup {Chunk_(<<>>, <<>>, fr) : fr \in FinishReasons}

\* requests one after the other: the two HTTP handlers with any message, or
\* a direct caller with a history; the process is not shut down
NextCallers ==
  \/ \E t \in Turns : \E rt \in Routes : \E m \in Messages :
       Sequential(t) /\ Request(t, rt, m)
  \/ \E t \in Turns : \E h \in Histories : Sequential(t) /\ DirectCall(t, h)
  \/ \E t \in Turns : HandshakeOk(t)
  \/ \E t \in Turns : HandshakeFail(t)
  \/ \E t \in Turns : ListToolsOk(t, conversationHistory[t])
  \/ \E t \in Turns : ListToolsFail(t)
  \/ \E t \in Turns : CreateOk(t)
  \/ \E t \in Turns : CompletionFail(t)
  \/ \E t \in Turns : \E c \in CallerChunks(t) : Chunk(t, c)
  \/ \E t \in Turns : StreamEnd(t)
  \/ \E t \in Turns : \E o \in Outcomes : ToolReturn(t, o)

SpecCallers == Init /\ [][NextCallers]_vars

\* the chunks of a sequence, concatenated in order
RECURSIVE Concat(_)
Concat(chunks) ==
  IF chunks = <<>> THEN <<>> ELSE Head(chunks) \o Concat(Tail(chunks))

\* C11: agent.run returns exactly the concatenation, in order, of all the
\* chunks its runStream yielded, the tool-round markers included, and it
\* fails exactly when runStream fails; seen through POST /chat/sync, whose
\* answer is 200 with run's value or 500 when run rejected.
C11_RunIsDrainedStream ==
  \A t \in Turns :
     route[t] = "sync" =>
       /\ result[t] = Concat(out[t])
       /\ pc[t] = "done" <=> res[t].status = 200
       /\ pc[t] = "failed" <=> res[t].status = 500
       /\ pc[t] = "done" => res[t].body = <<"response">> \o Concat(out[t])

C11_Witness ==
  \E t \in Turns :
     /\ route[t] = "sync" /\ pc[t] = "done"
     /\ \E k \in 1..Len(out[t]) : out[t][k] = ToolMarker
     /\ res[t].body = <<"response">> \o ToolMarker

\* the chunks of a sequence that are not the tool-round marker
TextChunks(chunks) == SelectSeq(chunks, LAMBDA c : c # ToolMarker)

\* C12: the chunks a turn yielded are, the tool-round markers removed, the
\* text deltas the model produced so far in the turn, in production order
\* (so each delta is yielded in the step that consumes it); a provider call
\* starts only when all text produced so far was yielded, and a text chunk is
\* yielded only while a stream is read, after every request of the round
\* before has its tool-result message in the conversation.
C12_TextInProductionOrder ==
  /\ [](\A t \in Turns : TextChunks(out[t]) = produced[t])
  /\ [][\A t \in Turns :
          /\ (invoked'[t] # invoked[t] /\ invoked'[t] # <<>>) =>
               TextChunks(out'[t]) = produced[t]
          /\ (Len(out'[t]) = Len(out[t]) + 1
              /\ out'[t][Len(out'[t])] # ToolMarker) =>
               /\ pc[t] = "stream"
               /\ produced'[t] = Append(produced[t], out'[t][Len(out'[t])])
               /\ round[t] > 1 => RoundBlock(t, Len(lastCalls[t]))
               /\ messages'[t] = messages[t]]_vars

\* a text delta of the second round was yielded after the marker and after
\* the provider answered the first round's request
C12_Witness ==
  \E t \in Turns :
    /\ round[t] = 2 /\ pc[t] = "stream"
    /\ Len(returned[t]) = 1
    /\ Len(out[t]) = 2 /\ out[t][1] = ToolMarker /\ out[t][2] = produced[t][1]

\* C13: the tool calls of a round run one after the other in accumulation
\* order: the requests sent to the provider have increasing positions (none
\* is sent twice), at most one is unanswered and exactly then the turn waits
\* in a provider call, which is never while a completion request or stream
\* is open, and the request in flight is sent only after every request
\* before it has its tool-result message.
C13_SequentialCalls ==
  \A t \in Turns :
    LET inflight == Len(invoked[t]) - Len(returned[t])
    IN  /\ inflight \in {0, 1}
        /\ inflight = 1 <=> pc[t] = "calling"
        /\ pc[t] \in {"create", "stream"} => inflight = 0
        /\ \A i, j \in 1..Len(invoked[t]) : i < j => invoked[t][i] < invoked[t][j]
        /\ \A i \in 1..Len(returned[t]) : returned[t][i].k = invoked[t][i]
        /\ pc[t] = "calling" =>
             /\ invoked[t][Len(invoked[t])] = idx[t]
             /\ RoundBlock(t, idx[t] - 1)

\* the second request of a round is with the provider, the first one was
\* answered
C13_Witness ==
  \E t \in Turns :
    /\ pc[t] = "calling" /\ invoked[t] = <<1, 2>> /\ Len(returned[t]) = 1

\* msgs is a sequence of round blocks: an assistant message followed by one
\* tool message per tool call it records, with the calls' identifiers in the
\* calls' order; the last block may lack trailing tool messages if partialOk
RECURSIVE IsBlocks(_, _)
IsBlocks(msgs, partialOk) ==
  IF msgs = <<>> THEN TRUE
  ELSE LET a == Head(msgs)
           rest == Tail(msgs)
           n == Len(a.tool_calls)
           m == IF Len(rest) < n THEN Len(rest) ELSE n
       IN  /\ a.role = "assistant"
           /\ n > 0
           /\ \A k \in 1..m : /\ rest[k].role = "tool"
                              /\ rest[k].tool_call_id = a.tool_calls[k].id
           /\ IF Len(rest) >= n THEN IsBlocks(SubSeq(rest, n + 1, Len(rest)), partialOk)
              ELSE partialOk

\* the conversation of turn t starts with the system prompt, the history and
\* the user message
Seeded(t) ==
  LET h == conversationHistory[t]
  IN  /\ Len(messages[t]) >= Len(h) + 2
      /\ messages[t][1].role = "system"
      /\ SubSeq(messages[t], 2, Len(h) + 1) = h
      /\ messages[t][Len(h) + 2].role = "user"

AfterSeed(t) ==
  SubSeq(messages[t], Len(conversationHistory[t]) + 3, Len(messages[t]))

IsPrefix(a, b) == Len(a) <= Len(b) /\ SubSeq(b, 1, Len(a)) = a

\* C14 as stated: at every point of a turn the conversation is the seed
\* followed by completed round blocks only.
C14_OnlyCompletedBlocks ==
  \A t \in Turns : round[t] >= 1 => Seeded(t) /\ IsBlocks(AfterSeed(t), FALSE)

\* C14: from its first completion request on, the conversation of a turn is
\* [system prompt, ...history, user message] followed by round blocks, each
\* an assistant message recording the round's requests followed by the
\* tool-result messages with those requests' identifiers in their order; all
\* blocks are complete except, while a provider call is in flight, the last
\* one, which holds the results of the requests before that call; the last
\* block records all requests of the last round; and a step of the turn
\* only appends to the conversation.
C14_SeedThenBlocks ==
  /\ [](\A t \in Turns : round[t] >= 1 =>
          /\ Seeded(t)
          /\ IsBlocks(AfterSeed(t), pc[t] = "calling")
          /\ pc[t] # "calling" => IsBlocks(AfterSeed(t), FALSE)
          /\ AfterSeed(t) # <<>> =>
               LET la == LastAssistant(messages[t])
               IN  /\ la > Len(conversationHistory[t]) + 2
                   /\ Len(messages[t][la].tool_calls) = Len(lastCalls[t])
                   /\ \A k \in 1..Len(lastCalls[t]) :
                        /\ messages[t][la].tool_calls[k].id = lastCalls[t][k].id
                        /\ messages[t][la].tool_calls[k].function = lastCalls[t][k].function
                   /\ pc[t] = "calling" => Len(messages[t]) = la + idx[t] - 1)
  /\ [][\A t \in Turns :
          (round[t] >= 1 /\ nturns' = nturns /\ pc'[t] # "idle") =>
             IsPrefix(messages[t], messages'[t])]_vars

\* a turn with a history waits for the provider's answer to the second
\* request of a round; the first request has its tool-result message
C14_Witness ==
  \E t \in Turns :
    /\ conversationHistory[t] # <<>>
    /\ pc[t] = "calling" /\ idx[t] = 2
    /\ Len(AfterSeed(t)) = 2

\* C15: when a completion request or its stream fails, the turn fails and
\* its caller sees the error (POST /chat/sync answers 500; POST /chat answers
\* 500 if nothing was written, else ends the body, which keeps the chunks
\* written, with the error trailer); the failing step takes back no chunk,
\* and afterwards the turn yields nothing, issues no completion request,
\* calls no tool and leaves its conversation alone until another request
\* takes its place.
C15_CompletionErrorFailsTurn ==
  /\ [](\A t \in Turns : completionError[t] =>
          /\ pc[t] = "failed"
          /\ route[t] = "sync" => res[t].status = 500
          /\ route[t] = "chat" =>
               IF out[t] = <<>> THEN res[t].status = 500
               ELSE res[t] = [status |-> 200, body |-> Concat(out[t]) \o ErrorTrailer])
  /\ [][\A t \in Turns :
          /\ (completionError'[t] /\ ~completionError[t]) =>
               /\ pc[t] \in {"create", "stream"}
               /\ out'[t] = out[t]
               /\ messages'[t] = messages[t]
               /\ round'[t] = round[t] /\ invoked'[t] = invoked[t]
          /\ (completionError[t] /\ completionError'[t]) =>
               /\ pc'[t] = pc[t] /\ out'[t] = out[t]
               /\ messages'[t] = messages[t] /\ res'[t] = res[t]
               /\ round'[t] = round[t] /\ invoked'[t] = invoked[t]
               /\ call'[t] = call[t]]_vars

\* the second completion request of a POST /chat turn failed after the
\* marker of the first round was written
C15_Witness ==
  \E t \in Turns :
    /\ completionError[t] /\ route[t] = "chat" /\ round[t] = 2
    /\ res[t].body = ToolMarker \o ErrorTrailer

\* C16: a request to POST /chat or POST /chat/sync whose body has no message
\* or a message that is not a string is answered with status 400 and an
\* error body, and no turn exists for it: no connect, no completion request,
\* no tool call; the step that handles it leaves the provider client and the
\* agent as they were.
C16_BadRequestNoUpstream ==
  /\ [](\A t \in Turns :
          (route[t] \in Routes /\ message[t].type # "string") =>
             /\ res[t] = [status |-> 400, body |-> BadRequestBody]
             /\ pc[t] = "idle" /\ conn[t] = 0 /\ round[t] = 0
             /\ messages[t] = <<>> /\ invoked[t] = <<>> /\ out[t] = <<>>)
  /\ [][\A t \in Turns :
          (/\ route'[t] \in Routes /\ message'[t].type # "string"
           /\ <<route[t], message[t], res[t], pc[t]>>
                # <<route'[t], message'[t], res'[t], pc'[t]>>) =>
             UNCHANGED <<clientVars, nturns, nchunks>>]_vars

\* POST /chat/sync answered 400 to a body without message; no transport was
\* ever launched
C16_Witness ==
  \E t \in Turns :
    /\ route[t] = "sync" /\ message[t].type = "undefined"
    /\ res[t].status = 400 /\ launches = 0

(* --------------------- termination: SpecLive --------------------------- *)
\* turns one after the other whose completion requests and streams do not
\* fail; once a stream is exhausted the generator's continuation (lines
\* 277-308) is run by the event loop, hence the weak fairness of StreamEnd,
\* and a pending provider call settles, hence that of ToolReturn
NextLive ==
  \/ \E t \in Turns : Sequential(t) /\ DirectCall(t, <<>>)
  \/ \E t \in Turns : HandshakeOk(t)
  \/ \E t \in Turns : HandshakeFail(t)
  \/ \E t \in Turns : ListToolsOk(t, conversationHistory[t])
  \/ \E t \in Turns : ListToolsFail(t)
  \/ \E t \in Turns : CreateOk(t)
  \/ \E t \in Turns : \E c \in MainChunks(t) : Chunk(t, c)
  \/ \E t \in Turns : StreamEnd(t)
  \/ \E t \in Turns : \E o \in Outcomes : ToolReturn(t, o)

SpecLive ==
  /\ Init /\ [][NextLive]_vars
  /\ WF_vars(\E t \in Turns : StreamEnd(t))
  /\ WF_vars(\E t \in Turns : \E o \in Outcomes : ToolReturn(t, o))

\* the stream of turn t is exhausted and asks for no tool
FinalResponse(t) ==
  /\ pc[t] = "stream" /\ ended[t]
  /\ StreamFinish(stream[t]) # "tool_calls" \/ ~StreamHasCalls(stream[t])

\* C17: once the model's response is complete and asks for no tool, the turn
\* reaches done; a pending provider call is left again; and a response that
\* asks for tools is followed by a tool round and another completion request
\* whatever the number of rounds so far (the loop has no cap).
C17_DoneAfterFinalResponse ==
  /\ \A t \in Turns : FinalResponse(t) ~> pc[t] = "done"
  /\ \A t \in Turns : pc[t] = "calling" ~> pc[t] = "create"
  /\ [][\A t \in Turns :
          (pc[t] = "stream" /\ ended[t] /\ ~FinalResponse(t) /\ pc'[t] # pc[t]) =>
             /\ pc'[t] \in {"calling", "create"}
             /\ pc'[t] = "create" => round'[t] = round[t] + 1]_vars

\* a turn is done after two completion requests
C17_Witness ==
  \E t \in Turns : pc[t] = "done" /\ round[t] = 2 /\ Len(returned[t]) = 1

(* ------------------ concurrent turns: SpecConc ------------------------- *)
\* the chunks SpecConc draws from: a tool call the provider will be sent, or
\* the chunk that carries the finish reason
ConcChunks(t) ==
  (IF Len(toolCalls[t]) < 1
     THEN {Chunk_(<<>>, <<Frag(0, CallId(0), "t1", <<"{", "}">>)>>, "null")}
     ELSE {})
  \cup {Chunk_(<<>>, <<>>, fr) : fr \in FinishReasons}

\* requests that arrive while others are in progress: any free slot starts a
\* turn at any time
NextConc ==
  \/ \E t \in Turns : DirectCall(t, <<>>)
  \/ \E t \in Turns : HandshakeOk(t)
  \/ \E t \in Turns : HandshakeFail(t)
  \/ \E t \in Turns : ListToolsOk(t, conversationHistory[t])
  \/ \E t \in Turns : ListToolsFail(t)
  \/ \E t \in Turns : CreateOk(t)
  \/ \E t \in Turns : CompletionFail(t)
  \/ \E t \in Turns : \E c \in ConcChunks(t) : Chunk(t, c)
  \/ \E t \in Turns : StreamEnd(t)
  \/ \E t \in Turns : \E o \in Outcomes : ToolReturn(t, o)

SpecConc == Init /\ [][NextConc]_vars

\* C18: turns that start together on an unconnected agent launch the
\* provider transport once (at most one handshake is pending), and the
\* transport of a pending handshake is the one this.transport refers to, so
\* that disconnect() can close it.
C18_OneSharedLaunch ==
  /\ Cardinality({t \in Turns : pc[t] = "handshake"}) <= 1
  /\ \A t \in Turns : pc[t] = "handshake" => transport = conn[t]

\* turn t passes from initialization to its first completion request
EntersLoop(t) == round[t] = 0 /\ round'[t] = 1

\* the catalog the provider serves, as getOpenAITools presents it once stored
FullCatalog ==
  [k \in 1..Len(catalog) |->
     [type |-> "function",
      function |-> [name |-> catalog[k].name,
                    description |-> catalog[k].description,
                    parameters |-> catalog[k].inputSchema]]]

\* C19: a turn that enters its loop does not read the cached catalog (line
\* 223) while a connect() of another turn has marked the client connected
\* (line 66) and has not yet stored the catalog of listTools (line 70), or at
\* least what it reads there and offers to the model is the full catalog.
C19_CatalogReadAfterStored ==
  [][\A t \in Turns :
       (EntersLoop(t) /\ \E u \in Turns \ {t} : pc[u] = "listTools") =>
          offered'[t] = FullCatalog]_vars

\* the argument strings that are JSON texts (of those the model draws from)
IsJSON(s) == s = <<"{", "}">>

\* the requests of the last round the tool loop is done with
Handled(t) ==
  IF pc[t] = "calling" THEN 1..(idx[t] - 1) ELSE 1..Len(lastCalls[t])

\* C20: a request whose argument string is no JSON text (the empty string is
\* one) is never sent to the provider; once the loop is past it, the
\* conversation holds at its place in the round block one tool-result message
\* with its identifier and an error payload; the requests after it are dealt
\* with all the same, and the round ends with the next completion request.
C20_BadArgumentsStayLocal ==
  \A t \in Turns :
    LET la == LastAssistant(messages[t])
    IN  /\ pc[t] = "calling" => IsJSON(toolCalls[t][idx[t]].function.arguments)
        /\ \A i \in 1..Len(invoked[t]) :
              IsJSON(lastCalls[t][invoked[t][i]].function.arguments)
        /\ \A k \in Handled(t) :
              ~IsJSON(lastCalls[t][k].function.arguments) =>
                 /\ Len(messages[t]) >= la + k
                 /\ messages[t][la + k].role = "tool"
                 /\ messages[t][la + k].tool_call_id = lastCalls[t][k].id
                 /\ messages[t][la + k].content =
                      <<"json", "error", "Unexpected end of JSON input">>
        /\ (lastCalls[t] # <<>> /\ pc[t] # "calling") =>
              /\ Len(messages[t]) = la + Len(lastCalls[t])
              /\ pc[t] \in {"create", "stream", "done", "failed"}
              /\ round[t] >= 2

\* a round of two requests: the first has the empty argument string and was
\* answered locally, the second is with the provider
C20_Witness ==
  \E t \in Turns :
    /\ pc[t] = "calling" /\ idx[t] = 2 /\ invoked[t] = <<2>>
    /\ lastCalls[t][1].function.arguments = <<>>

(* --------------- disconnect() and later turns: SpecDisc ---------------- *)
\* the state in which the agent's first turn has failed at its handshake:
\* connect() left the client and the transport it created in this.client
\* and this.transport (lines 47 and 60, no cleanup at 75-76); the counters
\* count from this state on
InitDisc ==
  /\ catalog \in Catalogs
  /\ client = 1 /\ transport = 1 /\ isConnected = FALSE /\ initialized = FALSE
  /\ tools = <<>>
  /\ launches = 1 /\ closed = {} /\ dpc = "idle" /\ ndisc = 0
  /\ pc = [t \in Turns |-> IF t = 1 THEN "failed" ELSE "idle"]
  /\ messages = [t \in Turns |-> <<>>]
  /\ offered = [t \in Turns |-> <<>>]
  /\ currentContent = [t \in Turns |-> <<>>]
  /\ toolCalls = [t \in Turns |-> <<>>]
  /\ finishReason = [t \in Turns |-> "null"]
  /\ idx = [t \in Turns |-> 0]
  /\ out = [t \in Turns |-> <<>>]
  /\ conn = [t \in Turns |-> 0]
  /\ call = [t \in Turns |-> NoCall]
  /\ round = [t \in Turns |-> 0]
  /\ stream = [t \in Turns |-> <<>>]
  /\ ended = [t \in Turns |-> FALSE]
  /\ lastCalls = [t \in Turns |-> <<>>]
  /\ returned = [t \in Turns |-> <<>>]
  /\ conversationHistory = [t \in Turns |-> <<>>]
  /\ route = [t \in Turns |-> "api"]
  /\ message = [t \in Turns |-> UserText]
  /\ res = [t \in Turns |-> NoRes]
  /\ result = [t \in Turns |-> <<>>]
  /\ produced = [t \in Turns |-> <<>>]
  /\ invoked = [t \in Turns |-> <<>>]
  /\ completionError = [t \in Turns |-> FALSE]
  /\ nturns = 0 /\ nchunks = 0

\* from there on: turns one after the other, disconnect() at any time
SpecDisc == InitDisc /\ [][Next]_vars

\* C21: a turn that starts when a disconnect() has completed and the client
\* is disconnected (nothing has reconnected since) launches the provider
\* before it issues a completion request.
C21_ReconnectsAfterDisconnect ==
  [][\A t \in Turns :
       (/\ nturns' # nturns /\ pc'[t] # pc[t]
        /\ ndisc >= 1 /\ dpc = "idle" /\ client = 0 /\ ~isConnected) =>
          /\ pc'[t] = "handshake"
          /\ launches' = launches + 1
          /\ round'[t] = 0]_vars

====
